---- MODULE Spec2Model ----
(***************************************************************************)
(* Battleships game runner: the Field / Board state machines of            *)
(* battleships/board.py and the round orchestration of battleships/game.py *)
(***************************************************************************)
EXTENDS Integers, Sequences, FiniteSets, TLC

(* ---------------------------------------------------------------------- *)
(* Bounds of the single-board specification (SpecBoard)                    *)
(* ---------------------------------------------------------------------- *)
MaxSize == 2          \* largest side length of the board under test
MaxShipSize == 2      \* largest ship size in the allowed-ships list
MaxOps == 3           \* number of Board method calls applied to one board

(* ---------------------------------------------------------------------- *)
(* Bounds of the game specification (Spec)                                 *)
(* ---------------------------------------------------------------------- *)
MaxTurns == 2         \* largest configured max_turns
MaxDelay == 1         \* largest configured feedback_delay
MaxGames == 2         \* largest argument of play(games)

(* ---------------------------------------------------------------------- *)
(* Bound of the timed-call specification (SpecTimed)                       *)
(* ---------------------------------------------------------------------- *)
MaxSeconds == 1       \* largest configured max_fn_time, in seconds

VARIABLES
    b,        \* the Board object under test (SpecBoard)
    last,     \* the last Board method call on b: name, arguments, outcome
    nops      \* number of Board method calls made on b

VARIABLES
    lenient,        \* TRUE: Game (tournament mode); FALSE: NaiveGame
    self_size,      \* self.size
    self_ships,     \* self.ships
    max_turns,      \* self.max_turns
    feedback_delay, \* self.feedback_delay
    games,          \* the argument of play
    thrower,        \* the player whose class raises in every drop_bomb (0: none)
    pc,             \* "play", "ships1", "ships2", "loop", "returned", "raised"
    rounds,         \* rounds played so far by play
    total,          \* <<p1_score, p2_score>> of play
    score,          \* what the last _play_round returned (<<>>: nothing yet)
    ctor,           \* how the two constructions of the current round ended
    bunches,        \* the shuffled order of the two sides
    boards,         \* <<p1_board, p2_board>> (<<>>: not created)
    buffers,        \* <<p1_buffer, p2_buffer>> (<<>>: not created)
    turn,           \* the loop variable turn
    shots,          \* per player: its shots resolved on the other board
    attacks,        \* per player: loop iterations run with it as attacker
    trace,          \* capability calls made by the last step, in order
    exc             \* the exception that escaped play (pc = "raised")

VARIABLES
    max_fn_time,    \* self.max_fn_time, in milliseconds
    platform,       \* sys.platform
    method,         \* the capability method the round calls
    takes,          \* milliseconds the player's own method runs if left alone
    ends,           \* how the player's own method ends if left alone
    tpc,            \* "idle", "call", "body", "done" ("off": no timed call)
    timed_player,   \* the round holds a TimedPlayer around the player
    alarm,          \* seconds until the pending SIGALRM (0: none pending)
    tresult         \* how the round's call ended ("": it has not)

boardVars == <<b, last, nops>>
timedVars == <<max_fn_time, platform, method, takes, ends, tpc, timed_player,
               alarm, tresult>>
gameVars == <<lenient, self_size, self_ships, max_turns, feedback_delay, games, thrower, pc, rounds,
              total, score, ctor, bunches, boards, buffers, turn, shots,
              attacks, trace, exc>>
vars == <<boardVars, gameVars, timedVars>>

(* ---------------------------------------------------------------------- *)
(* Python list indexing and slicing, as used on Board._board               *)
(* ---------------------------------------------------------------------- *)
Max2(a, c) == IF a > c THEN a ELSE c
Min2(a, c) == IF a < c THEN a ELSE c

\* lst[i] on a list of length n raises IndexError unless -n <= i < n
PyIndexOK(n, i) == -n <= i /\ i < n
\* the 0-based position lst[i] denotes (negative i counts from the end)
PyIndex(n, i) == IF i < 0 THEN i + n ELSE i
\* a slice bound, clamped the way lst[lo:hi] clamps it
PyClamp(n, v) == IF v < 0 THEN Max2(v + n, 0) ELSE Min2(v, n)
\* the 0-based positions selected by lst[lo:hi] on a list of length n
PySlice(n, lo, hi) ==
    LET s == PyClamp(n, lo)
        e == PyClamp(n, hi)
    IN  [k \in 1..Max2(e - s, 0) |-> s + k - 1]

\* list.remove(v): drop the first occurrence of v
RECURSIVE ListRemove(_, _)
ListRemove(lst, v) ==
    IF lst = <<>> THEN <<>>
    ELSE IF Head(lst) = v THEN Tail(lst)
    ELSE <<Head(lst)>> \o ListRemove(Tail(lst), v)

InList(lst, v) == \E i \in 1..Len(lst) : lst[i] = v

(* ---------------------------------------------------------------------- *)
(* FieldState, ShotResult, Field                                           *)
(* ---------------------------------------------------------------------- *)
FieldState == {"EMPTY", "SHIP", "HIT", "MISSED"}
ShotResult == {"MISS", "PREVIOUS_MISS", "HIT", "PREVIOUS_HIT", "INVALID"}

\* a transition table that reports a repeated miss as a first miss
TransitionsForgetMiss ==
    [s \in FieldState |->
        CASE s = "EMPTY"  -> <<"MISSED", "MISS">>
          [] s = "SHIP"   -> <<"HIT", "HIT">>
          [] s = "HIT"    -> <<"HIT", "PREVIOUS_HIT">>
          [] s = "MISSED" -> <<"EMPTY", "MISS">>]

\* Field._transitions: state |-> <<next state, result>>
_transitions ==
    [s \in FieldState |->
        CASE s = "EMPTY"  -> <<"MISSED", "MISS">>
          [] s = "SHIP"   -> <<"HIT", "HIT">>
          [] s = "HIT"    -> <<"HIT", "PREVIOUS_HIT">>
          [] s = "MISSED" -> <<"MISSED", "PREVIOUS_MISS">>]

\* Field.drop_bomb: <<new state, returned result>>
Field_drop_bomb(state) == _transitions[state]

(* ---------------------------------------------------------------------- *)
(* Board.  _board[y][x] is the Field of row y, column x; a ship is the     *)
(* list of the Fields it was given, a Field being named by <<y, x>>.       *)
(* ---------------------------------------------------------------------- *)
InvalidCoordinates == "ValueError: Invalid coordinates"
NoMoreShips == "ValueError: No more ships of size allowed"
NotEnoughSpace == "ValueError: Not enough space to place ship"
ExistingShip == "ValueError: Trying to place on existing ship"
Placed == "None"

\* Board.__init__
Board(size, ships) ==
    [size |-> size,
     _board |-> [y \in 0..(size - 1) |-> [x \in 0..(size - 1) |-> "EMPTY"]],
     _ships |-> <<>>,
     _remaining_ships |-> ships]

\* Board.drop_bomb: the board afterwards and what the call returns or raises
Board_drop_bomb(self, x, y) ==
    IF ~PyIndexOK(self.size, y) \/ ~PyIndexOK(self.size, x)
    THEN [self |-> self, ret |-> InvalidCoordinates]
    ELSE LET r == PyIndex(self.size, y)
             c == PyIndex(self.size, x)
             t == Field_drop_bomb(self._board[r][c])
         IN  [self |-> [self EXCEPT !._board[r][c] = t[1]], ret |-> t[2]]

\* the Fields place_ship selects: "IndexError" or the list of <<row, column>>
SpanFields(self, size, x, y, horizontal) ==
    IF horizontal
    THEN IF ~PyIndexOK(self.size, y)
         THEN [err |-> TRUE, fields |-> <<>>]
         ELSE LET cols == PySlice(self.size, x, x + size)
              IN  [err |-> FALSE,
                   fields |-> [k \in 1..Len(cols) |->
                                  <<PyIndex(self.size, y), cols[k]>>]]
    ELSE LET rows == PySlice(self.size, y, y + size)
         IN  IF Len(rows) > 0 /\ ~PyIndexOK(self.size, x)
             THEN [err |-> TRUE, fields |-> <<>>]
             ELSE [err |-> FALSE,
                   fields |-> [k \in 1..Len(rows) |->
                                  <<rows[k], PyIndex(self.size, x)>>]]

\* a check that never finds a field taken
FieldsTakenNever(self, fields) == FALSE

\* "Check if fields are already taken"
FieldsTaken(self, fields) ==
    \E k \in 1..Len(fields) : self._board[fields[k][1]][fields[k][2]] # "EMPTY"

\* "Assign fields to a ship"
AssignFields(self, fields) ==
    [self EXCEPT
        !._ships = Append(@, fields),
        !._board = [y \in DOMAIN @ |-> [x \in DOMAIN @[y] |->
                       IF \E k \in 1..Len(fields) : fields[k] = <<y, x>>
                       THEN "SHIP" ELSE @[y][x]]]]

\* Board.place_ship: the board afterwards and what the call returns or raises
Board_place_ship(self, size, x, y, horizontal) ==
    IF ~InList(self._remaining_ships, size)
    THEN [self |-> self, ret |-> NoMoreShips]
    ELSE LET s1 == [self EXCEPT !._remaining_ships = ListRemove(@, size)]
             span == SpanFields(s1, size, x, y, horizontal)
         IN  IF span.err \/ Len(span.fields) # size
             THEN [self |-> s1, ret |-> NotEnoughSpace]
             ELSE IF FieldsTaken(s1, span.fields)
             THEN [self |-> s1, ret |-> ExistingShip]
             ELSE [self |-> AssignFields(s1, span.fields), ret |-> Placed]

\* Board.still_floating
still_floating(self) ==
    \E i \in 1..Len(self._ships) : \E k \in 1..Len(self._ships[i]) :
        self._board[self._ships[i][k][1]][self._ships[i][k][2]] = "SHIP"

(* ---------------------------------------------------------------------- *)
(* NaiveGame / Game: configuration, players' behaviour, helpers            *)
(* ---------------------------------------------------------------------- *)
\* Board() as the round creates it: the defaults of Board.__init__
DefaultSize == 12
DefaultShips == <<2, 3, 3, 4, 5>>

\* the size and ships arguments a game is created with in the model: the
\* defaults of NaiveGame.__init__ and one other value of each
Sizes == {DefaultSize - 2, DefaultSize}
ShipConfigs == {<<2>>, DefaultShips}

Players == {1, 2}
Opp(p) == 3 - p

\* how a call into a player's code can end: it returns, it raises an
\* ordinary exception (a timeout included), or KeyboardInterrupt/SystemExit
CallOutcomes == {"ok", "raise", "interrupt"}

\* one entry of a ship_locations() list; "malformed" is an entry that
\* place_ship(*ship) cannot be called with (TypeError)
Ship(size, x, y, horizontal) ==
    [kind |-> "ship", size |-> size, x |-> x, y |-> y,
     horizontal |-> horizontal]
Malformed ==
    [kind |-> "malformed", size |-> 0, x |-> 0, y |-> 0, horizontal |-> FALSE]

\* the lists ship_locations() returns in the model: a valid list, a list whose
\* first entry place_ship rejects (no ship of size 1), a list whose first
\* entry is not a 4-tuple, a list whose first entry goes out of the board
ShipLocations ==
    { <<Ship(2, DefaultSize - 2, 0, TRUE)>>,
      <<Ship(1, 0, 0, TRUE), Ship(2, DefaultSize - 2, 0, TRUE)>>,
      <<Malformed, Ship(2, DefaultSize - 2, 0, TRUE)>>,
      <<Ship(2, DefaultSize - 1, 0, TRUE), Ship(2, DefaultSize - 2, 0, TRUE)>> }

\* what drop_bomb() returns in the model: pairs inside the grid, pairs with a
\* negative coordinate, pairs beyond the grid
DropPairs ==
    {<<DefaultSize - 2, 0>>, <<DefaultSize - 1, 0>>, <<-1, 0>>,
     <<DefaultSize, 0>>}

Drop(kind, x, y) == [kind |-> kind, x |-> x, y |-> y]

\* how drop_bomb() of player p can end: "pair" returns (x, y), "nonint"
\* returns a pair that is not of integers, "raise" covers an exception and a
\* return value that does not unpack into two
DropOutcomes(p) ==
    IF thrower = p
    THEN {Drop("raise", 0, 0)}
    ELSE {Drop("raise", 0, 0), Drop("interrupt", 0, 0), Drop("nonint", 0, 0)}
         \cup {Drop("pair", q[1], q[2]) : q \in DropPairs}

NoExc == [type |-> "", by |-> 0, call |-> ""]
Exc(type, by, call) == [type |-> type, by |-> by, call |-> call]

\* a capability call recorded in trace: who was called with what; outcome is
\* how ship_locations and drop_bomb ended (what the round goes on with)
Event(call, by, x, y, result, n, outcome) ==
    [call |-> call, by |-> by, x |-> x, y |-> y, result |-> result,
     n |-> n, outcome |-> outcome]

\* the ship_locations call recorded in trace, with the list it returned
ShipsEvent(by, outcome, ships) ==
    [call |-> "ship_locations", by |-> by, x |-> 0, y |-> 0, result |-> "",
     n |-> 0, outcome |-> outcome, ships |-> ships]

\* a feedback buffer entry: (x, y, result) of the attacker's n-th resolved shot
Feedback(x, y, result, n) == [x |-> x, y |-> y, result |-> result, n |-> n]
None == Feedback(0, 0, "None", 0)

\* a buffer that delays one turn more
NewBufferOneMore(delay) == [k \in 1..(delay + 1) |-> None]

\* [None] * self.feedback_delay
NewBuffer(delay) == [k \in 1..delay |-> None]

\* a handler that lets every exception through
SwallowedNever(outcome) == FALSE

\* except (KeyboardInterrupt, SystemExit): raise / except BaseException: ...
\* of Game: an ordinary exception is swallowed, in NaiveGame nothing is
Swallowed(outcome) == lenient /\ outcome = "raise"

\* the exception a call ending with outcome lets escape
Escaping(outcome, by, call) ==
    IF outcome = "interrupt" THEN Exc("KeyboardInterrupt", by, call)
    ELSE Exc("Exception", by, call)

\* the forfeit scores with the two sides exchanged
ForfeitScoreSwapped(c1, c2) ==
    IF c1 # "ok" /\ c2 # "ok" THEN <<1, 1>>
    ELSE <<(IF c1 # "ok" THEN 2 ELSE 0), (IF c2 # "ok" THEN 2 ELSE 0)>>

\* Game._play_round, "if p1 is None and p2 is None ... return"
ForfeitScore(c1, c2) ==
    IF c1 # "ok" /\ c2 # "ok" THEN <<1, 1>>
    ELSE <<(IF c2 # "ok" THEN 2 ELSE 0), (IF c1 # "ok" THEN 2 ELSE 0)>>

\* scoring without the draw fallback
ScoringNoFallback(b1, b2) ==
    <<(IF still_floating(b1) THEN 2 ELSE 0),
      (IF still_floating(b2) THEN 2 ELSE 0)>>

\* "# Scoring"
Scoring(b1, b2) ==
    LET s == <<(IF still_floating(b1) THEN 2 ELSE 0),
               (IF still_floating(b2) THEN 2 ELSE 0)>>
    IN  IF s[1] + s[2] # 2 THEN <<1, 1>> ELSE s

\* a loop test that allows one turn more
LoopBreakLate(att_b, t) == ~still_floating(att_b) \/ t > max_turns * 2 + 1

\* "if not att_b.still_floating or turn > self.max_turns * 2: break"
LoopBreak(att_b, t) == ~still_floating(att_b) \/ t > max_turns * 2

\* a loop that gives every turn to the first side
AttackerNeverSwaps(t) == bunches[1]

\* the attacker of the loop iteration that follows t iterations:
\* itertools.cycle(bunches)
Attacker(t) == bunches[(t % 2) + 1]

\* a play that keeps the score of the last round only
RoundReturnsLastOnly(sc) ==
    /\ score' = sc
    /\ total' = sc
    /\ rounds' = rounds + 1
    /\ pc' = "play"
    /\ exc' = exc

\* _play_round returns sc to play, which adds it to the totals
RoundReturns(sc) ==
    /\ score' = sc
    /\ total' = <<total[1] + sc[1], total[2] + sc[2]>>
    /\ rounds' = rounds + 1
    /\ pc' = "play"
    /\ exc' = exc

\* an exception escapes _play_round and play; the round's locals are gone
Raises(e) ==
    /\ pc' = "raised"
    /\ exc' = e
    /\ boards' = <<>>
    /\ buffers' = <<>>
    /\ turn' = 0
    /\ shots' = <<0, 0>>
    /\ attacks' = <<0, 0>>
    /\ UNCHANGED <<score, total, rounds, bunches>>

config ==
    <<lenient, self_size, self_ships, max_turns, feedback_delay, games,
      thrower>>

(* ---------------------------------------------------------------------- *)
(* play and _play_round                                                    *)
(* ---------------------------------------------------------------------- *)
GameInit ==
    /\ lenient \in BOOLEAN
    /\ self_size = DefaultSize
    /\ self_ships = DefaultShips
    /\ max_turns \in 1..MaxTurns
    /\ feedback_delay \in 0..MaxDelay
    /\ games \in 1..MaxGames
    /\ thrower \in {0} \cup Players
    /\ pc = "play"
    /\ rounds = 0
    /\ total = <<0, 0>>
    /\ score = <<>>
    /\ ctor = <<"none", "none">>
    /\ bunches = <<1, 2>>
    /\ boards = <<>>
    /\ buffers = <<>>
    /\ turn = 0
    /\ shots = <<0, 0>>
    /\ attacks = <<0, 0>>
    /\ trace = <<>>
    /\ exc = NoExc

\* the game variables while a single board is under test
GameIdle ==
    /\ lenient = TRUE
    /\ self_size = 0
    /\ self_ships = <<>>
    /\ max_turns = 0
    /\ feedback_delay = 0
    /\ games = 0
    /\ thrower = 0
    /\ pc = "idle"
    /\ rounds = 0
    /\ total = <<0, 0>>
    /\ score = <<>>
    /\ ctor = <<"none", "none">>
    /\ bunches = <<1, 2>>
    /\ boards = <<>>
    /\ buffers = <<>>
    /\ turn = 0
    /\ shots = <<0, 0>>
    /\ attacks = <<0, 0>>
    /\ trace = <<>>
    /\ exc = NoExc

\* a handler around the constructions that catches interrupts as well
CtorSwallowsAll(c) == c # "ok" /\ ~lenient

\* a construction's exception leaves _play_round
CtorEscapes(c) == c # "ok" /\ ~Swallowed(c)

\* play starts a round: _play_round constructs the players, and, with both
\* constructed, creates boards and buffers and shuffles the sides
Construct ==
    /\ pc = "play"
    /\ rounds < games
    /\ trace' = <<>>
    /\ \E c1 \in CallOutcomes :
         IF CtorEscapes(c1)
         THEN /\ ctor' = <<c1, "none">>
              /\ Raises(Escaping(c1, 1, "__init__"))
         ELSE \E c2 \in CallOutcomes :
              /\ ctor' = <<c1, c2>>
              /\ IF CtorEscapes(c2)
                 THEN Raises(Escaping(c2, 2, "__init__"))
                 ELSE IF c1 # "ok" \/ c2 # "ok"
                 THEN /\ RoundReturns(ForfeitScore(c1, c2))
                      /\ boards' = <<>> /\ buffers' = <<>>
                      /\ turn' = 0 /\ shots' = <<0, 0>>
                      /\ attacks' = <<0, 0>> /\ bunches' = bunches
                 ELSE /\ boards' = <<Board(DefaultSize, DefaultShips),
                                     Board(DefaultSize, DefaultShips)>>
                      /\ buffers' = <<NewBuffer(feedback_delay),
                                      NewBuffer(feedback_delay)>>
                      /\ \E first \in Players : bunches' = <<first, Opp(first)>>
                      /\ turn' = 0 /\ shots' = <<0, 0>>
                      /\ attacks' = <<0, 0>>
                      /\ pc' = "ships1"
                      /\ UNCHANGED <<score, total, rounds, exc>>
    /\ UNCHANGED <<config, boardVars, timedVars>>

(* ---------------------------------------------------------------------- *)
(* SpecTimed: one capability call of a Game round, through TimedPlayer     *)
(* when max_fn_time > 0                                                    *)
(* ---------------------------------------------------------------------- *)
\* the four capability methods of a Player
Capability == {"ship_locations", "drop_bomb", "bomb_feedback", "bombed_feedback"}

\* the configured budgets, in milliseconds
FnTimes == {-1, 0, 500} \cup {1000 * k : k \in 1..MaxSeconds}

\* the running times of the player's own method, in milliseconds
Durations == {500 * k : k \in 0..(2 * MaxSeconds + 2)}

\* Python's a / b: a float, also when b divides a
TrueDiv(a, c) == [type |-> "float", num |-> a, den |-> c]

\* signal.alarm(seconds): an int argument arms the alarm, any other type is a
\* TypeError
SignalAlarm(seconds) ==
    IF seconds.type = "int"
    THEN [err |-> "", alarm |-> seconds.num]
    ELSE [err |-> "TypeError", alarm |-> 0]

\* the timed-call variables while no timed call is under test
TimedIdle ==
    /\ max_fn_time = 0
    /\ platform = "linux"
    /\ method = "drop_bomb"
    /\ takes = 0
    /\ ends = "returns"
    /\ tpc = "off"
    /\ timed_player = FALSE
    /\ alarm = 0
    /\ tresult = ""

(* ---------------------------------------------------------------------- *)
(* SpecBoard: one Board, any of its methods called with any arguments      *)
(* ---------------------------------------------------------------------- *)
\* the ship-size lists a board under test is created with
ShipLists == {<<1, MaxShipSize>>, <<MaxShipSize, MaxShipSize>>}

\* coordinates tried on a board of side n: below -n, negative, inside, above
Coords(n) == {-(n + 1), -n, -1, n} \cup 0..(n - 1)

InGrid(n, x, y) == 0 <= x /\ x < n /\ 0 <= y /\ y < n

\* the span of size cells from (x, y) lies in the grid of side n
SpanInGrid(n, size, x, y, horizontal) ==
    /\ InGrid(n, x, y)
    /\ IF horizontal THEN InGrid(n, x + size - 1, y)
       ELSE InGrid(n, x, y + size - 1)

\* the record of a Board method call: what it returned or raised, whether
\* its coordinates (span) were inside the grid and, for a call that returned,
\* its arguments
Call(op, size, x, y, horizontal, inside, ret) ==
    [op |-> op, size |-> size, x |-> x, y |-> y, horizontal |-> horizontal,
     inside |-> inside, ret |-> ret]
Raised(op, inside, ret) == Call(op, 0, 0, 0, FALSE, inside, ret)

NoCall == Raised("init", TRUE, "None")

BoardInit ==
    /\ \E n \in 1..MaxSize : \E ships \in ShipLists : b = Board(n, ships)
    /\ last = NoCall
    /\ nops = 0
    /\ GameIdle
    /\ TimedIdle

BoardPlaceShip ==
    /\ nops < MaxOps
    /\ \E size \in 1..MaxShipSize :
       \E x \in Coords(b.size) : \E y \in Coords(b.size) :
       \E horizontal \in BOOLEAN :
         LET r == Board_place_ship(b, size, x, y, horizontal)
             inside == SpanInGrid(b.size, size, x, y, horizontal)
         IN  /\ b' = r.self
             /\ last' = IF r.ret = Placed
                        THEN Call("place_ship", size, x, y, horizontal,
                                  inside, r.ret)
                        ELSE Raised("place_ship", inside, r.ret)
    /\ nops' = nops + 1
    /\ UNCHANGED <<gameVars, timedVars>>

BoardDropBomb ==
    /\ nops < MaxOps
    /\ \E x \in Coords(b.size) : \E y \in Coords(b.size) :
         LET r == Board_drop_bomb(b, x, y)
             inside == InGrid(b.size, x, y)
         IN  /\ b' = r.self
             /\ last' = IF r.ret # InvalidCoordinates
                        THEN Call("drop_bomb", 0, x, y, FALSE, inside, r.ret)
                        ELSE Raised("drop_bomb", inside, r.ret)
    /\ nops' = nops + 1
    /\ UNCHANGED <<gameVars, timedVars>>

BoardNext == BoardPlaceShip \/ BoardDropBomb

SpecBoard == BoardInit /\ [][BoardNext]_vars

\* SpecTimed: the timed call from its start to its end
TimedInit ==
    /\ max_fn_time \in FnTimes
    /\ platform \in {"linux", "win32"}
    /\ method \in Capability
    /\ takes \in Durations
    /\ ends \in {"returns", "raises"}
    /\ tpc = "idle"
    /\ timed_player = FALSE
    /\ alarm = 0
    /\ tresult = ""
    /\ b = Board(0, <<>>) /\ last = NoCall /\ nops = 0
    /\ GameIdle

\* Game._play_round: "if self.max_fn_time > 0: TimedPlayer(...) else: p_class(...)"
GameWraps ==
    /\ tpc = "idle"
    /\ timed_player' = (max_fn_time > 0)
    /\ tpc' = "call"
    /\ UNCHANGED <<max_fn_time, platform, method, takes, ends, alarm, tresult,
                   boardVars, gameVars>>

\* the round calls the method: a plain player runs it at once, a TimedPlayer
\* enters "with self.timed()" first
TimedEnter ==
    /\ tpc = "call"
    /\ IF timed_player /\ platform = "linux"
       THEN LET r == SignalAlarm(TrueDiv(max_fn_time, 1000))
            IN  IF r.err # ""
                THEN /\ tresult' = r.err
                     /\ tpc' = "done"
                     /\ alarm' = alarm
                ELSE /\ alarm' = r.alarm
                     /\ tpc' = "body"
                     /\ tresult' = tresult
       ELSE /\ tpc' = "body"
            /\ UNCHANGED <<alarm, tresult>>
    /\ UNCHANGED <<max_fn_time, platform, method, takes, ends, timed_player,
                   boardVars, gameVars>>

\* the player's own method runs: to its end, or until a pending alarm raises
\* TimeoutError in it (_raise_timeout); timed() then clears the alarm
WrappedCall ==
    /\ tpc = "body"
    /\ tresult' = IF alarm > 0 /\ takes >= alarm * 1000 THEN "TimeoutError"
                  ELSE IF ends = "returns" THEN "value" ELSE "Exception"
    /\ alarm' = 0
    /\ tpc' = "done"
    /\ UNCHANGED <<max_fn_time, platform, method, takes, ends, timed_player,
                   boardVars, gameVars>>

TimedNext == GameWraps \/ TimedEnter \/ WrappedCall

SpecTimed == TimedInit /\ [][TimedNext]_vars

\* a test that never lets the attacker's feedback through
ResultNeverPasses(result) == FALSE

\* the result test before the attacker's feedback: "if result is not None"
ResultIsNotNone(result) == result # "None"

\* "# Set up ships" for one side: the board after the entries of ships were
\* tried in order, and the exception type that escaped ("": none)
RECURSIVE PlaceShips(_, _)
PlaceShips(board, ships) ==
    IF ships = <<>> THEN [board |-> board, err |-> ""]
    ELSE IF Head(ships).kind = "malformed"
    THEN [board |-> board, err |-> IF lenient THEN "" ELSE "TypeError"]
    ELSE LET h == Head(ships)
             r == Board_place_ship(board, h.size, h.x, h.y, h.horizontal)
         IN  IF r.ret # Placed /\ ~lenient
             THEN [board |-> r.self, err |-> "ValueError"]
             ELSE PlaceShips(r.self, Tail(ships))

\* what ship_locations() of a player can do
ShipOutcomes ==
    {[outcome |-> o, ships |-> <<>>] : o \in {"raise", "interrupt"}} \cup
    {[outcome |-> "ok", ships |-> l] : l \in ShipLocations}

\* the ships of the i-th side of bunches are set up
SetUpShips(i) ==
    /\ pc = (IF i = 1 THEN "ships1" ELSE "ships2")
    /\ \E s \in ShipOutcomes :
         LET player == bunches[i]
             placed == PlaceShips(boards[player], s.ships)
         IN  /\ trace' = <<ShipsEvent(player, s.outcome, s.ships)>>
             /\ IF s.outcome # "ok" /\ ~Swallowed(s.outcome)
                THEN Raises(Escaping(s.outcome, player, "ship_locations"))
                ELSE IF placed.err # ""
                THEN Raises(Exc(placed.err, player, "place_ship"))
                ELSE /\ boards' = [boards EXCEPT ![player] = placed.board]
                     /\ pc' = (IF i = 1 THEN "ships2" ELSE "loop")
                     /\ UNCHANGED <<score, total, rounds, exc, bunches,
                                    buffers, turn, shots, attacks>>
    /\ UNCHANGED <<config, ctor, boardVars, timedVars>>

\* one iteration of the turn loop after its break test, with attacker att,
\* drop_bomb() ending as d, bombed_feedback as f1 and bomb_feedback as f2
TurnEffect(att, d, f1, f2) ==
    LET tgt == Opp(att)
        ev0 == Event("drop_bomb", att, d.x, d.y, "", 0, d.kind)
        skip == [boards |-> boards, buffers |-> buffers, shots |-> shots,
                 trace |-> <<ev0>>, exc |-> NoExc]
    IN
    IF d.kind \in {"raise", "interrupt"}
    THEN IF Swallowed(d.kind) THEN skip
         ELSE [skip EXCEPT !.exc = Escaping(d.kind, att, "drop_bomb")]
    ELSE IF d.kind = "nonint"
    THEN [skip EXCEPT !.exc = Exc("TypeError", att, "Board.drop_bomb")]
    ELSE
    LET r == Board_drop_bomb(boards[tgt], d.x, d.y) IN
    IF r.ret = InvalidCoordinates
    THEN IF lenient THEN skip
         ELSE [skip EXCEPT !.exc = Exc("ValueError", att, "Board.drop_bomb")]
    ELSE
    LET n == shots[att] + 1
        ev1 == Event("bombed_feedback", tgt, d.x, d.y, r.ret, n, "")
        after1 == [boards |-> [boards EXCEPT ![tgt] = r.self],
                   buffers |-> buffers,
                   shots |-> [shots EXCEPT ![att] = n],
                   trace |-> <<ev0, ev1>>, exc |-> NoExc]
    IN
    IF f1 # "ok" /\ ~Swallowed(f1)
    THEN [after1 EXCEPT !.exc = Escaping(f1, tgt, "bombed_feedback")]
    ELSE
    LET appended == Append(buffers[att], Feedback(d.x, d.y, r.ret, n))
        feedback == Head(appended)
        after2 == [after1 EXCEPT
                      !.buffers = [buffers EXCEPT ![att] = Tail(appended)]]
    IN
    IF ~ResultIsNotNone(r.ret) THEN after2
    ELSE IF feedback = None
    THEN \* att.bomb_feedback(*None) is a TypeError before the call
         IF Swallowed("raise") THEN after2
         ELSE [after2 EXCEPT !.exc = Exc("TypeError", att, "*feedback")]
    ELSE
    LET ev2 == Event("bomb_feedback", att, feedback.x, feedback.y,
                     feedback.result, feedback.n, "")
        after3 == [after2 EXCEPT !.trace = <<ev0, ev1, ev2>>]
    IN  IF f2 # "ok" /\ ~Swallowed(f2)
        THEN [after3 EXCEPT !.exc = Escaping(f2, att, "bomb_feedback")]
        ELSE after3

\* one iteration of the turn loop that does not break
Turn ==
    /\ pc = "loop"
    /\ ~LoopBreak(boards[Attacker(turn)], turn + 1)
    /\ \E d \in DropOutcomes(Attacker(turn)) :
       \E f1 \in CallOutcomes : \E f2 \in CallOutcomes :
         LET t == TurnEffect(Attacker(turn), d, f1, f2)
         IN  /\ Len(t.trace) >= 2 \/ f1 = "ok"   \* f1, f2 matter only for
             /\ Len(t.trace) >= 3 \/ f2 = "ok"   \* the calls that are made
             /\ trace' = t.trace
             /\ IF t.exc = NoExc
                THEN /\ turn' = turn + 1
                     /\ attacks' = [attacks EXCEPT ![Attacker(turn)] = @ + 1]
                     /\ boards' = t.boards
                     /\ buffers' = t.buffers
                     /\ shots' = t.shots
                     /\ pc' = "loop"
                     /\ UNCHANGED <<score, total, rounds, exc, bunches>>
                ELSE Raises(t.exc)
    /\ UNCHANGED <<config, ctor, boardVars, timedVars>>

\* the iteration that breaks, the scoring, and play adding the score
EndRound ==
    /\ pc = "loop"
    /\ LoopBreak(boards[Attacker(turn)], turn + 1)
    /\ turn' = turn + 1
    /\ RoundReturns(Scoring(boards[1], boards[2]))
    /\ trace' = <<>>
    /\ UNCHANGED <<config, ctor, bunches, boards, buffers, shots, attacks,
                   boardVars, timedVars>>

\* play has run its rounds and returns the totals
PlayReturn ==
    /\ pc = "play"
    /\ rounds = games
    /\ pc' = "returned"
    /\ UNCHANGED <<config, rounds, total, score, ctor, bunches, boards,
                   buffers, turn, shots, attacks, trace, exc, boardVars,
                   timedVars>>

Init ==
    GameInit /\ b = Board(0, <<>>) /\ last = NoCall /\ nops = 0 /\ TimedIdle

Next ==
    \/ Construct
    \/ \E i \in 1..2 : SetUpShips(i)
    \/ Turn
    \/ EndRound
    \/ PlayReturn

Spec == Init /\ [][Next]_vars

\* one round of a game created with a size and a ship list of its own
ConfiguredInit ==
    /\ lenient \in BOOLEAN
    /\ self_size \in Sizes
    /\ self_ships \in ShipConfigs
    /\ max_turns = 1
    /\ feedback_delay = 0
    /\ games = 1
    /\ thrower = 0
    /\ pc = "play"
    /\ rounds = 0
    /\ total = <<0, 0>>
    /\ score = <<>>
    /\ ctor = <<"none", "none">>
    /\ bunches = <<1, 2>>
    /\ boards = <<>>
    /\ buffers = <<>>
    /\ turn = 0
    /\ shots = <<0, 0>>
    /\ attacks = <<0, 0>>
    /\ trace = <<>>
    /\ exc = NoExc
    /\ b = Board(0, <<>>) /\ last = NoCall /\ nops = 0
    /\ TimedIdle

SpecConfigured == ConfiguredInit /\ [][Next]_vars

(* ---------------------------------------------------------------------- *)
(* Properties of Board and Field (checked under SpecBoard)                 *)
(* ---------------------------------------------------------------------- *)
\* the step is a call of place_ship that raised
PlaceShipFailed == last'.op = "place_ship" /\ last'.ret # Placed /\ nops' = nops + 1

\* C1: a place_ship call that fails leaves every cell, the ship list and the
\* remaining-ship-sizes list unchanged.
C1_PlaceShipAtomic == [][PlaceShipFailed => b' = b]_vars

\* the step is a call of drop_bomb
DropBombCalled == last'.op = "drop_bomb" /\ nops' = nops + 1

\* C3: drop_bomb(x, y) raises the invalid-coordinates error and changes no
\* cell when x or y is outside [0, size); inside the grid it applies the Field
\* transition to exactly the cell of column x, row y.
C3_DropBombBounds ==
    [][DropBombCalled =>
        IF last'.inside
        THEN /\ last'.ret = _transitions[b._board[last'.y][last'.x]][2]
             /\ b' = [b EXCEPT !._board[last'.y][last'.x] = _transitions[@][1]]
        ELSE /\ last'.ret = InvalidCoordinates
             /\ b' = b]_vars

\* the Field a successful drop_bomb call was delegated to
BombedField == <<PyIndex(b.size, last'.y), PyIndex(b.size, last'.x)>>

\* C9: bombing an EMPTY field returns MISS and leaves it MISSED, bombing a
\* MISSED field returns PREVIOUS_MISS; bombing a SHIP field returns HIT and
\* leaves it HIT, bombing a HIT field returns PREVIOUS_HIT; a MISSED or HIT
\* field never changes state again, and no bomb on a field returns INVALID.
C9_FieldTransitions ==
    [][/\ \A y \in DOMAIN b._board : \A x \in DOMAIN b._board[y] :
            b._board[y][x] \in {"MISSED", "HIT"} =>
                b'._board[y][x] = b._board[y][x]
       /\ (DropBombCalled /\ last'.ret # InvalidCoordinates) =>
            LET before == b._board[BombedField[1]][BombedField[2]]
                after == b'._board[BombedField[1]][BombedField[2]]
            IN  /\ before = "EMPTY" => last'.ret = "MISS" /\ after = "MISSED"
                /\ before = "MISSED" =>
                        last'.ret = "PREVIOUS_MISS" /\ after = "MISSED"
                /\ before = "SHIP" => last'.ret = "HIT" /\ after = "HIT"
                /\ before = "HIT" =>
                        last'.ret = "PREVIOUS_HIT" /\ after = "HIT"
                /\ last'.ret # "INVALID"]_vars

\* a field has been bombed again after a first miss
C9_Witness == last.op = "drop_bomb" /\ last.ret = "PREVIOUS_MISS"

\* the fields of a ship, as a set
ShipFields(ship) == {ship[k] : k \in 1..Len(ship)}

\* no Field is in two ships, nor twice in one
NoSharedField(self) ==
    /\ \A i \in 1..Len(self._ships) : \A j \in 1..Len(self._ships) :
            i # j => ShipFields(self._ships[i]) \cap ShipFields(self._ships[j]) = {}
    /\ \A i \in 1..Len(self._ships) :
            Cardinality(ShipFields(self._ships[i])) = Len(self._ships[i])

\* the step keeps every placed ship and its extent
ShipsKept ==
    \A i \in 1..Len(b._ships) :
        Len(b'._ships) >= i /\ b'._ships[i] = b._ships[i]

\* the step is a place_ship call that placed its ship
PlaceShipPlaced ==
    last'.op = "place_ship" /\ last'.ret = Placed /\ nops' = nops + 1

\* C10: no Field belongs to more than one placed ship: a place_ship that
\* succeeds takes no field of a placed ship, one that fails changes no cell and
\* no ship, and no call changes the extent of a placed ship.
C10_OneShipPerField ==
    /\ []NoSharedField(b)
    /\ [][ShipsKept]_vars
    /\ [][PlaceShipPlaced =>
            \A j \in 1..Len(b._ships) :
                ShipFields(b'._ships[Len(b'._ships)])
                    \cap ShipFields(b._ships[j]) = {}]_vars
    /\ [][PlaceShipFailed =>
            (b'._ships = b._ships /\ b'._board = b._board)]_vars

\* a placement was refused because it met a placed ship
C10_Witness ==
    last.op = "place_ship" /\ last.ret = ExistingShip /\ Len(b._ships) >= 1

\* some cell of some placed ship has not been hit
SomeShipCellNotHit(self) ==
    \E i \in 1..Len(self._ships) : \E k \in 1..Len(self._ships[i]) :
        self._board[self._ships[i][k][1]][self._ships[i][k][2]] # "HIT"

\* every cell of every placed ship has been hit, and a ship was placed
AllShipsSunk(self) == Len(self._ships) >= 1 /\ ~SomeShipCellNotHit(self)

\* C11: still_floating is true exactly while some cell of a placed ship has
\* not been hit; once every cell of every placed ship has been hit it is false
\* and stays false after every further drop_bomb or place_ship call.
C11_SunkStaysSunk ==
    /\ [](still_floating(b) <=> SomeShipCellNotHit(b))
    /\ [][AllShipsSunk(b) => ~still_floating(b')]_vars

\* the cells <<row, column>> the span of place_ship(size, x, y, horizontal)
\* names: (x + i, y) if horizontal, (x, y + i) if not, for 0 <= i < size
SpanCells(size, x, y, horizontal) ==
    {IF horizontal THEN <<y, x + i>> ELSE <<y + i, x>> : i \in 0..(size - 1)}

\* C12: a place_ship that succeeds had its span inside the grid and turned
\* exactly the cells (x + i, y), or (x, y + i), of that span into SHIP, in the
\* (column, row) addressing of drop_bomb; a span that leaves the grid, a
\* negative start included, is rejected.
C12_PlaceShipSpan ==
    [][PlaceShipPlaced =>
        /\ last'.inside
        /\ b'._board =
             [r \in DOMAIN b._board |-> [c \in DOMAIN b._board[r] |->
                 IF <<r, c>> \in SpanCells(last'.size, last'.x, last'.y,
                                           last'.horizontal)
                 THEN "SHIP" ELSE b._board[r][c]]]
        /\ \A cell \in SpanCells(last'.size, last'.x, last'.y,
                                 last'.horizontal) :
             Board_drop_bomb(b', cell[2], cell[1]).ret = "HIT"]_vars

(* ---------------------------------------------------------------------- *)
(* Properties of the round and of play (checked under Spec)                *)
(* ---------------------------------------------------------------------- *)
\* the last round ran its turn loop to the end and has returned its score
RoundScored == pc \in {"play", "returned"} /\ rounds > 0 /\ Len(boards) = 2

\* the bomb_feedback calls made by the last step
FeedbackCalls == {i \in 1..Len(trace) : trace[i].call = "bomb_feedback"}

\* the last step resolved a shot of a player on the other board
ShotResolved == \E i \in 1..Len(trace) : trace[i].call = "bombed_feedback"

\* C2 as claimed: the attacker is told the result of its shot number i when
\* its shot number i + feedback_delay + 1 is processed.
C2_FeedbackAfterKPlusOne ==
    pc = "loop" =>
        \A i \in FeedbackCalls :
            shots[trace[i].by] = trace[i].n + feedback_delay + 1

\* C2 amended: the attacker is told the result of its resolved shot number i
\* while its resolved shot number i + feedback_delay is processed (in Game, in
\* every such turn), and the results of its last feedback_delay shots stay in
\* its buffer, undelivered, also when the round has ended.
C2_FeedbackAfterK ==
    /\ pc = "loop" =>
         /\ \A i \in FeedbackCalls :
                shots[trace[i].by] = trace[i].n + feedback_delay
         /\ (lenient /\ ShotResolved /\
             shots[trace[1].by] > feedback_delay) => FeedbackCalls # {}
    /\ RoundScored => trace = <<>>
    /\ (pc = "loop" \/ RoundScored) =>
         \A p \in Players :
            /\ Len(buffers[p]) = feedback_delay
            /\ \A j \in 1..Len(buffers[p]) :
                  buffers[p][j].n = Max2(0, shots[p] - feedback_delay + j)

\* a result was delivered one shot late
C2_Witness ==
    /\ pc = "loop" /\ lenient /\ feedback_delay >= 1
    /\ \E i \in FeedbackCalls : trace[i].n >= 1

\* the step is a turn of a Game round in which drop_bomb returned integer
\* coordinates outside the grid of the defender's board
OutOfGridTurn ==
    /\ lenient /\ pc = "loop" /\ Len(trace') >= 1
    /\ trace'[1].call = "drop_bomb" /\ trace'[1].outcome = "pair"
    /\ ~InGrid(boards[Opp(trace'[1].by)].size, trace'[1].x, trace'[1].y)

\* C4: in Game, a turn whose drop_bomb returns integer coordinates outside
\* the grid is consumed without any other effect: no cell changes, no feedback
\* method is called, the buffers are unchanged, the other side is next.
C4_OutOfGridSkips ==
    [][OutOfGridTurn =>
        /\ boards' = boards
        /\ buffers' = buffers
        /\ Len(trace') = 1
        /\ pc' = "loop"
        /\ turn' = turn + 1
        /\ Attacker(turn') = Opp(Attacker(turn))]_vars

\* an exception escaped play from the drop_bomb of the always-failing player
ThrowerCrashed ==
    pc = "raised" /\ exc.by = thrower /\
    exc.call \in {"drop_bomb", "Board.drop_bomb"}

\* C5 as claimed: in Game, the player whose drop_bomb always fails lets no
\* exception escape and scores 0 against 2 in every round.
C5_ThrowerForfeits ==
    (lenient /\ thrower # 0) =>
        /\ ~ThrowerCrashed
        /\ RoundScored =>
              score[thrower] = 0 /\ score[Opp(thrower)] = 2

\* the score of side p by the boards at the end of the loop
ScoreOf(p) ==
    IF still_floating(boards[p])
    THEN (IF still_floating(boards[Opp(p)]) THEN 1 ELSE 2)
    ELSE (IF still_floating(boards[Opp(p)]) THEN 0 ELSE 1)

\* C5 amended: in Game, the player whose drop_bomb always fails lets no
\* exception escape and never changes the other board; it scores 0 against
\* 2 exactly in the rounds that end with its own board sunk and the other
\* afloat, and otherwise draws or (the other board having no ship) wins.
C5_ThrowerNeverShoots ==
    (lenient /\ thrower # 0) =>
        /\ ~ThrowerCrashed
        /\ shots[thrower] = 0
        /\ Len(boards) = 2 =>
              LET ob == boards[Opp(thrower)]
              IN  \A y \in DOMAIN ob._board : \A x \in DOMAIN ob._board[y] :
                      ob._board[y][x] \in {"EMPTY", "SHIP"}
        /\ RoundScored =>
              /\ score[thrower] = ScoreOf(thrower)
              /\ score[Opp(thrower)] = 2 - score[thrower]

\* the always-failing player was attacker and lost the round
C5_Witness ==
    /\ lenient /\ thrower # 0 /\ RoundScored
    /\ attacks[thrower] >= 1
    /\ score[thrower] = 0

\* C6: a round that ends its turn loop returns (0,2) if only player 1's
\* board has no floating ship, (2,0) if only player 2's has none, (1,1) if
\* both or neither float; no round returns any other pair.
C6_RoundScore ==
    /\ score # <<>> => score \in {<<0, 2>>, <<2, 0>>, <<1, 1>>}
    /\ RoundScored =>
         score = (IF ~still_floating(boards[1]) /\ still_floating(boards[2])
                  THEN <<0, 2>>
                  ELSE IF still_floating(boards[1]) /\ ~still_floating(boards[2])
                  THEN <<2, 0>>
                  ELSE <<1, 1>>)

\* a round was decided by sinking player 1's ships
C6_Witness ==
    RoundScored /\ score = <<0, 2>> /\ Len(boards[1]._ships) > 0

\* a construction of the current round failed and none was interrupted
ConstructionFailed ==
    /\ ctor[1] \in {"ok", "raise"} /\ ctor[2] \in {"ok", "raise"}
    /\ ctor[1] = "raise" \/ ctor[2] = "raise"

\* C7: in Game, a round in which a construction fails returns at once, with
\* (0,2) or (2,0) against the side that failed and (1,1) if both failed; no
\* board is created and no capability method is called.
C7_ConstructionForfeit ==
    (lenient /\ ConstructionFailed) =>
        /\ pc \in {"play", "returned"}
        /\ score = (IF ctor[1] = "raise" /\ ctor[2] = "raise" THEN <<1, 1>>
                    ELSE IF ctor[1] = "raise" THEN <<0, 2>> ELSE <<2, 0>>)
        /\ boards = <<>> /\ buffers = <<>> /\ trace = <<>>

\* player 1 alone failed to construct
C7_Witness ==
    lenient /\ ctor = <<"raise", "ok">> /\ pc = "play" /\ score = <<0, 2>>

\* C8: the loop ends exactly in the iteration that finds the attacker's own
\* board without floating ship or the turn count above 2 * max_turns; no
\* round runs more than 2 * max_turns turns, no side attacks in more than
\* max_turns of them.
C8_LoopEnds ==
    /\ [](/\ attacks[1] + attacks[2] <= 2 * max_turns
          /\ attacks[1] <= max_turns
          /\ attacks[2] <= max_turns)
    /\ [][pc = "loop" =>
            ((pc' = "play") <=>
                (\/ ~still_floating(boards[bunches[(turn % 2) + 1]])
                 \/ turn + 1 > 2 * max_turns))]_vars

\* a round ended by the turn limit with both boards afloat
C8_Witness ==
    /\ RoundScored /\ turn = 2 * max_turns + 1
    /\ attacks[1] = max_turns /\ attacks[2] = max_turns
    /\ still_floating(boards[1]) /\ still_floating(boards[2])

\* the capability calls of a player and its construction
PlayerCalls ==
    {"__init__", "ship_locations", "drop_bomb", "bombed_feedback",
     "bomb_feedback"}

\* the step is a turn in which drop_bomb returned a pair of integers inside
\* the grid and no call into a player's code let an exception escape
WellBehavedTurn ==
    /\ pc = "loop" /\ Len(trace') >= 1
    /\ trace'[1].call = "drop_bomb" /\ trace'[1].outcome = "pair"
    /\ InGrid(boards[Opp(trace'[1].by)].size, trace'[1].x, trace'[1].y)
    /\ exc'.call \notin PlayerCalls

\* the names of the capability calls made by the step, in order
CallNames == [i \in 1..Len(trace') |-> trace'[i].call]

\* C13: with players whose calls do not fail and whose shots are inside the
\* grid, a turn is the same in NaiveGame as in Game, for every
\* feedback_delay: drop_bomb, the shot resolved on the defender's board,
\* bombed_feedback, the result pushed on the attacker's buffer and the oldest
\* entry popped and, unless it is an empty slot, handed to bomb_feedback; no
\* exception ends the round.
C13_StrictIsLenient ==
    [][WellBehavedTurn =>
        LET att == trace'[1].by
            shot == Board_drop_bomb(boards[Opp(att)], trace'[1].x, trace'[1].y)
            pushed == Append(buffers[att],
                             Feedback(trace'[1].x, trace'[1].y, shot.ret,
                                      shots[att] + 1))
        IN  /\ pc' = "loop" /\ exc' = NoExc
            /\ boards' = [boards EXCEPT ![Opp(att)] = shot.self]
            /\ buffers' = [buffers EXCEPT ![att] = Tail(pushed)]
            /\ CallNames =
                 IF Head(pushed) = None
                 THEN <<"drop_bomb", "bombed_feedback">>
                 ELSE <<"drop_bomb", "bombed_feedback", "bomb_feedback">>]_vars

\* the step is the set-up of a side's ships in a Game round, from a list of
\* 4-tuples that ship_locations returned
ShipsSetUp ==
    /\ lenient /\ pc \in {"ships1", "ships2"} /\ Len(trace') = 1
    /\ trace'[1].call = "ship_locations" /\ trace'[1].outcome = "ok"
    /\ \A k \in 1..Len(trace'[1].ships) : trace'[1].ships[k].kind = "ship"

\* the two entries name a common cell
Overlap(e, f) ==
    SpanCells(e.size, e.x, e.y, e.horizontal)
        \cap SpanCells(f.size, f.x, f.y, f.horizontal) # {}

\* entry k of the list l is valid by itself on the board brd: its size is
\* allowed and its span is inside the grid and free
ValidEntry(brd, l, k) ==
    /\ InList(brd._remaining_ships, l[k].size)
    /\ SpanInGrid(brd.size, l[k].size, l[k].x, l[k].y, l[k].horizontal)
    /\ ~FieldsTaken(brd, SpanFields(brd, l[k].size, l[k].x, l[k].y,
                                    l[k].horizontal).fields)

\* entry k is valid and competes with no other valid entry of the list for a
\* cell or for the allowed ship of its size
ValidWhateverTheOthers(brd, l, k) ==
    /\ ValidEntry(brd, l, k)
    /\ \A j \in 1..Len(l) :
          (j # k /\ ValidEntry(brd, l, j)) =>
              ~Overlap(l[j], l[k]) /\ l[j].size # l[k].size

\* C14: in a Game round every entry of the ship_locations list is validated
\* by itself: an entry that place_ship rejects is skipped, the round goes on,
\* and every other entry that is itself valid is placed.
C14_EntriesIndependent ==
    [][ShipsSetUp =>
        LET p == trace'[1].by
            l == trace'[1].ships
        IN  /\ pc' \in {"ships2", "loop"}
            /\ \A k \in 1..Len(l) :
                  ValidWhateverTheOthers(boards[p], l, k) =>
                      \A cell \in SpanCells(l[k].size, l[k].x, l[k].y,
                                             l[k].horizontal) :
                          boards'[p]._board[cell[1]][cell[2]] = "SHIP"]_vars

\* the exception of an interrupt raised in call by player by
Interrupt(by, call) == Exc("KeyboardInterrupt", by, call)

\* every way the coming turn can go has its feedback interrupts escaping
FeedbackInterruptsEscape ==
    (pc = "loop" /\ ~LoopBreak(boards[Attacker(turn)], turn + 1)) =>
        \A d \in DropOutcomes(Attacker(turn)) :
        \A f1 \in CallOutcomes : \A f2 \in CallOutcomes :
            LET att == Attacker(turn)
                t == TurnEffect(att, d, f1, f2)
            IN  /\ (Len(t.trace) >= 2 /\ f1 = "interrupt") =>
                      t.exc = Interrupt(Opp(att), "bombed_feedback")
                /\ (Len(t.trace) >= 3 /\ f2 = "interrupt") =>
                      t.exc = Interrupt(att, "bomb_feedback")

\* C16: a KeyboardInterrupt or SystemExit raised in a player's construction
\* or in one of its four capability calls leaves the round and play, in Game
\* as in NaiveGame; nothing follows it, no skipped turn and no forfeit.
C16_InterruptsPropagate ==
    /\ [](\A i \in 1..2 :
            ctor[i] = "interrupt" =>
                pc = "raised" /\ exc = Interrupt(i, "__init__"))
    /\ [](\A k \in 1..Len(trace) :
            trace[k].outcome = "interrupt" =>
                pc = "raised" /\ exc = Interrupt(trace[k].by, trace[k].call))
    /\ []FeedbackInterruptsEscape
    /\ [][pc # "raised"]_vars

\* in Game, an interrupt in the attacker's bomb_feedback has ended play
C16_Witness ==
    /\ lenient /\ pc = "raised"
    /\ exc.type = "KeyboardInterrupt" /\ exc.call = "bomb_feedback"

\* the step starts the set-up and the turns of a new round
RoundStarts == pc = "play" /\ pc' = "ships1"

\* C17: play runs its rounds one after another, exactly games of them before
\* it returns, and its totals are the sums of the round scores of each side;
\* a round starts on two new boards and two new buffers of empty slots,
\* whatever the round before left.
C17_PlaySumsFreshRounds ==
    /\ [](/\ rounds <= games
          /\ pc = "returned" => rounds = games
          /\ rounds = 0 => total = <<0, 0>>)
    /\ [][/\ rounds' \in {rounds, rounds + 1}
          /\ rounds' = rounds + 1 =>
                /\ pc = "play" \/ pc = "loop"
                /\ total' = <<total[1] + score'[1], total[2] + score'[2]>>
          /\ rounds' = rounds => total' = total
          /\ RoundStarts =>
                /\ boards' = <<Board(DefaultSize, DefaultShips),
                               Board(DefaultSize, DefaultShips)>>
                /\ \A p \in Players :
                      /\ Len(buffers'[p]) = feedback_delay
                      /\ \A j \in 1..Len(buffers'[p]) : buffers'[p][j] = None
                /\ turn' = 0 /\ shots' = <<0, 0>> /\ attacks' = <<0, 0>>]_vars

\* play has returned, after two rounds or more that reached their turn loop,
\* totals that no single round gives
C17_Witness ==
    /\ pc = "returned" /\ rounds = games /\ games >= 2
    /\ total[1] >= 3
    /\ Len(boards) = 2

\* the step is a turn of the loop: the attacker's drop_bomb was called
TurnTaken ==
    pc = "loop" /\ Len(trace') >= 1 /\ trace'[1].call = "drop_bomb"

\* C18: the first turn of a round is the first mover's and every later turn
\* is the turn of the other side than the turn before, skipped turns
\* included; a shot is resolved on the board of the attacker's opponent,
\* which alone is told by bombed_feedback, and the attacker's own board does
\* not change.
C18_AttackerAlternates ==
    /\ [](attacks[1] - attacks[2] \in {-1, 0, 1})
    /\ [][TurnTaken =>
            LET att == trace'[1].by
            IN  /\ att = IF turn = 0 THEN bunches[1] ELSE Opp(trace[1].by)
                /\ \A k \in 1..Len(trace') :
                      trace'[k].by = IF trace'[k].call = "bombed_feedback"
                                     THEN Opp(att) ELSE att
                /\ pc' = "loop" =>
                      /\ turn' = turn + 1
                      /\ boards'[att] = boards[att]
                      /\ boards'[Opp(att)] =
                            IF Len(trace') >= 2
                            THEN Board_drop_bomb(boards[Opp(att)], trace'[1].x,
                                                 trace'[1].y).self
                            ELSE boards[Opp(att)]]_vars

\* the round has gone on after a skipped turn, both sides having attacked
C18_Witness ==
    /\ pc = "loop" /\ turn >= 3 /\ Len(trace) = 1
    /\ trace[1].call = "drop_bomb" /\ trace[1].outcome = "raise"
    /\ attacks[1] >= 1 /\ attacks[2] >= 1

\* the step is a turn of a Game round whose shot was resolved and which the
\* round survived
CompletedTurn ==
    /\ lenient /\ TurnTaken /\ pc' = "loop"
    /\ Len(trace') >= 2 /\ trace'[2].call = "bombed_feedback"

\* the shot numbers in the buffer of p are the last ones of p, in order
InFiringOrder(p) ==
    \A j \in 1..Len(buffers[p]) :
        \/ buffers[p][j] = None /\ shots[p] - Len(buffers[p]) + j <= 0
        \/ buffers[p][j] # None
              /\ buffers[p][j].n = shots[p] - Len(buffers[p]) + j

\* C19: in a Game round every completed turn appends the attacker's
\* (x, y, result) to the attacker's own buffer and pops its oldest entry, and
\* calls the attacker's bomb_feedback with the popped entry if and only if
\* that entry is not an empty slot; the buffers start with feedback_delay
\* empty slots and hold feedback_delay entries between turns, the last shots
\* of their side in firing order, so that each result is handed over once.
C19_FeedbackQueue ==
    /\ []((lenient /\ pc = "loop") =>
            \A p \in Players :
                Len(buffers[p]) = feedback_delay /\ InFiringOrder(p))
    /\ [][CompletedTurn =>
            LET att == trace'[1].by
                pushed == Append(buffers[att],
                                 Feedback(trace'[1].x, trace'[1].y,
                                          trace'[2].result, shots[att] + 1))
                popped == Head(pushed)
            IN  /\ shots' = [shots EXCEPT ![att] = @ + 1]
                /\ buffers' = [buffers EXCEPT ![att] = Tail(pushed)]
                /\ Len(trace') = 3 <=> popped # None
                /\ Len(trace') = 3 =>
                      /\ trace'[3].call = "bomb_feedback"
                      /\ trace'[3].by = att
                      /\ Feedback(trace'[3].x, trace'[3].y, trace'[3].result,
                                  trace'[3].n) = popped]_vars

\* an attacker was handed the result of an earlier shot than the one it has
\* just fired at another cell
C19_Witness ==
    /\ lenient /\ pc = "loop" /\ feedback_delay >= 1 /\ Len(trace) = 3
    /\ trace[3].call = "bomb_feedback" /\ trace[3].n = shots[trace[3].by] - 1
    /\ trace[3].x # trace[1].x

\* the step is a turn of a Game round in which the attacker's drop_bomb
\* raised, a timeout included, or returned what does not unpack into x, y
DropBombFailedTurn ==
    lenient /\ TurnTaken /\ trace'[1].outcome = "raise"

\* C20: in a Game round a turn whose drop_bomb call fails contributes
\* nothing: both boards and both buffers stay as they are, no feedback method
\* is called, no shot is counted, and the next turn is the other side's.
C20_FailedDropSkips ==
    [][DropBombFailedTurn =>
        /\ pc' = "loop" /\ exc' = NoExc
        /\ boards' = boards
        /\ buffers' = buffers
        /\ shots' = shots
        /\ trace' = <<Event("drop_bomb", trace'[1].by, 0, 0, "", 0, "raise")>>
        /\ turn' = turn + 1
        /\ bunches' = bunches
        /\ Attacker(turn') = Opp(trace'[1].by)]_vars

\* a side that is not the always-failing one has failed in drop_bomb with a
\* result of its own still waiting in its buffer
C20_Witness ==
    /\ lenient /\ pc = "loop" /\ thrower = 0 /\ Len(trace) = 1
    /\ trace[1].call = "drop_bomb" /\ trace[1].outcome = "raise"
    /\ Len(buffers[trace[1].by]) >= 1
    /\ buffers[trace[1].by][1] # None

\* the step is a turn of a Game round in which drop_bomb returned a pair of
\* integers that the defender's board resolves
ShotResolvedTurn ==
    /\ lenient /\ TurnTaken /\ trace'[1].outcome = "pair"
    /\ Board_drop_bomb(boards[Opp(trace'[1].by)], trace'[1].x,
                       trace'[1].y).ret # InvalidCoordinates

\* the bombed_feedback calls made by the step
BombedCalls == {k \in 1..Len(trace') : trace'[k].call = "bombed_feedback"}

\* whatever the coming turn is, it goes the same way whether the defender's
\* bombed_feedback fails or returns
BombedFailureChangesNothing ==
    (lenient /\ pc = "loop" /\ ~LoopBreak(boards[Attacker(turn)], turn + 1)) =>
        \A d \in DropOutcomes(Attacker(turn)) : \A f2 \in CallOutcomes :
            TurnEffect(Attacker(turn), d, "raise", f2)
                = TurnEffect(Attacker(turn), d, "ok", f2)

\* C21: in a Game round every shot that the defender's board resolves is
\* followed, in the same turn and before the attacker's bomb_feedback, by
\* exactly one bombed_feedback call of the defender with the shot's (x, y) and
\* the result the board returned, and no other turn calls bombed_feedback; a
\* failing bombed_feedback changes nothing of the turn: the board effect, the
\* buffers and the attacker's feedback are those of a returning one.
C21_DefenderToldOnce ==
    /\ []BombedFailureChangesNothing
    /\ [][(lenient /\ TurnTaken) =>
            IF ShotResolvedTurn
            THEN LET att == trace'[1].by
                     shot == Board_drop_bomb(boards[Opp(att)], trace'[1].x,
                                             trace'[1].y)
                 IN  /\ BombedCalls = {2}
                     /\ trace'[2].by = Opp(att)
                     /\ trace'[2].x = trace'[1].x /\ trace'[2].y = trace'[1].y
                     /\ trace'[2].result = shot.ret
                     /\ pc' = "loop" => boards'[Opp(att)] = shot.self
            ELSE BombedCalls = {}]_vars

\* a defender was told of a hit before the attacker was told of it
C21_Witness ==
    /\ lenient /\ pc = "loop" /\ Len(trace) = 3
    /\ trace[2].call = "bombed_feedback" /\ trace[2].result = "HIT"
    /\ trace[3].call = "bomb_feedback" /\ trace[3].result = "HIT"
    /\ trace[3].n = trace[2].n

\* the round's boards each got a ship before the turn loop started
BothHadShips ==
    Len(boards) = 2 /\ \A p \in Players : Len(boards[p]._ships) > 0

\* a board of the round has no floating ship left
SomeBoardSunk == \E p \in Players : ~still_floating(boards[p])

\* C22: in a round whose two boards have a floating ship when the turn loop
\* starts, the iteration that follows the sinking of a board is the one that
\* breaks: no drop_bomb is called and no board changes after it; at most one
\* board is sunk in the loop and at scoring, and a (1,1) score is returned
\* only with both boards afloat and the turn count above 2 * max_turns.
C22_SinkingEndsRound ==
    /\ []((BothHadShips /\ (pc = "loop" \/ RoundScored)) =>
             (still_floating(boards[1]) \/ still_floating(boards[2])))
    /\ []((BothHadShips /\ RoundScored /\ score = <<1, 1>>) =>
             /\ still_floating(boards[1]) /\ still_floating(boards[2])
             /\ turn > 2 * max_turns)
    /\ [][(pc = "loop" /\ BothHadShips /\ SomeBoardSunk) =>
            /\ pc' = "play" /\ trace' = <<>>
            /\ boards' = boards /\ shots' = shots /\ attacks' = attacks]_vars

\* a round was decided by sinking player 2's ships before the turn limit
C22_Witness ==
    /\ RoundScored /\ BothHadShips /\ score = <<2, 0>>
    /\ ~still_floating(boards[2]) /\ turn <= 2 * max_turns

(* ---------------------------------------------------------------------- *)
(* Properties of a configured game (checked under SpecConfigured)          *)
(* ---------------------------------------------------------------------- *)
\* the ship sizes of a list, however ordered
SizeCount(l) ==
    [n \in {l[i] : i \in 1..Len(l)} |->
        Cardinality({i \in 1..Len(l) : l[i] = n})]

\* C23: when a round has created its boards, each has the side length
\* self.size and, as sizes still to place, the ship sizes of self.ships: the
\* values the players were constructed with.
C23_BoardsAsConfigured ==
    pc = "ships1" =>
        \A p \in Players :
            /\ boards[p].size = self_size
            /\ SizeCount(boards[p]._remaining_ships) = SizeCount(self_ships)

(* ---------------------------------------------------------------------- *)
(* Properties of timed calls (checked under SpecTimed)                     *)
(* ---------------------------------------------------------------------- *)
\* what the player's own method yields if it is left alone
WrappedResult == IF ends = "returns" THEN "value" ELSE "Exception"

\* C15: in Game with max_fn_time > 0 a capability call that runs longer than
\* max_fn_time milliseconds ends with a timeout failure and one that finishes
\* within max_fn_time yields what the wrapped player's method yields; with
\* max_fn_time <= 0 no call is timed out.
C15_Deadline ==
    tpc = "done" =>
        IF max_fn_time > 0
        THEN IF takes > max_fn_time THEN tresult = "TimeoutError"
             ELSE tresult = WrappedResult
        ELSE tresult = WrappedResult

====
